---- MODULE Spec2Model ----
(***************************************************************************)
(* The practice-session timer and progression logic of the practice app:   *)
(* PracticeSession / PracticeResponse / Question (practice/models.py) and   *)
(* the views practice_session, question_create, question_edit and           *)
(* question_delete (practice/views.py).                                     *)
(*                                                                          *)
(* Time is counted in ticks of 1/TicksPerSecond second, so that the         *)
(* int(timedelta.total_seconds()) truncations of the code are visible.      *)
(* An optional value (a nullable column, a None result) is the empty        *)
(* sequence None or the one-element sequence Some(v).                       *)
(***************************************************************************)
EXTENDS Integers, Sequences, FiniteSets, TLC

VARIABLES
    now,                   \* the wall clock read by timezone.now(), in ticks
    questions,             \* Question rows of the set: pk -> order
    next_question_pk,      \* the next primary key of a Question row
    started_at,            \* PracticeSession.started_at
    time_limit_minutes,    \* PracticeSession.time_limit_minutes (None = no limit)
    ended_at,              \* PracticeSession.ended_at
    paused_at,             \* PracticeSession.paused_at
    total_paused_seconds,  \* PracticeSession.total_paused_seconds
    timer_enabled,         \* PracticeSession.timer_enabled
    responses,             \* PracticeResponse rows of the session
    next_response_pk,      \* the next primary key of a PracticeResponse row
    rendered,              \* what the last practice_session request returned
    paused_ticks,          \* history: the ticks during which the session was Paused
    in_flight              \* the request that has read the session and not yet written

vars == <<now, questions, next_question_pk, started_at, time_limit_minutes,
          ended_at, paused_at, total_paused_seconds, timer_enabled,
          responses, next_response_pk, rendered, paused_ticks, in_flight>>

session_fields == <<started_at, time_limit_minutes, ended_at, paused_at,
                    total_paused_seconds, timer_enabled>>

----------------------------------------------------------------------------
(* Bounds of the model *)

TicksPerSecond == 2        \* clock resolution of the model
StartTick == 1             \* the instant at which the session is created
MaxEarly == 3              \* instants modelled right after the start
MaxLate == 4               \* instants modelled after the first deadline
InitQuestions == 2         \* questions in the set when the session starts
EditQuestions == 1         \* the same, when the set is edited meanwhile
MaxQuestionPk == 2         \* primary keys available to Question rows

(* Program constants *)

SecondsPerMinute == 60
MinRating == 1
MaxRating == 5

----------------------------------------------------------------------------
(* Optional values *)

None == <<>>
Some(v) == <<v>>
Val(o) == o[1]

(* Python truthiness of a nullable integer: None and 0 are false *)
Truthy(o) == o # None /\ Val(o) # 0

(* int(td.total_seconds()) of a timedelta of d ticks: truncation towards 0 *)
IntSeconds(d) ==
    IF d >= 0 THEN d \div TicksPerSecond ELSE -((-d) \div TicksPerSecond)

(* timedelta(seconds=s) and timedelta(minutes=m), in ticks *)
SecondsDelta(s) == s * TicksPerSecond
MinutesDelta(m) == m * SecondsPerMinute * TicksPerSecond

Max(a, b) == IF a >= b THEN a ELSE b

(* The instants at which the clock is read: a few right after the start of *)
(* the session and a few around the deadline of a one-minute session.      *)
Instants ==
    (StartTick .. StartTick + MaxEarly)
    \cup ((StartTick + MinutesDelta(1) - 1) .. (StartTick + MinutesDelta(1) + MaxLate))

(* The coarse clock of SpecEdit jumps to the first deadline of the session *)
EditInstants == {StartTick + MinutesDelta(1)}

TimeLimits == {None, Some(1)}
(* Question.order: its default and a later place *)
Orders == {0, 1}

----------------------------------------------------------------------------
(* Request parameters: strings are sequences of characters *)

Digits == {"0", "1", "5", "6"}
(* U+00B2 SUPERSCRIPT TWO: str.isdigit() is True, int() raises ValueError *)
SuperscriptTwo == "sup2"

RawTexts == {<<" ", "a", " ">>}
RawRatings == {None, Some(<<"0">>), Some(<<"5">>), Some(<<"1", "0">>),
               Some(<<"x">>), Some(<<SuperscriptTwo>>)}
Actions == {"none", "pause", "resume", "end_timer"}

(* str.strip() *)
RECURSIVE LStrip(_)
LStrip(s) == IF s # <<>> /\ Head(s) = " " THEN LStrip(Tail(s)) ELSE s
RECURSIVE RStrip(_)
RStrip(s) ==
    IF s # <<>> /\ s[Len(s)] = " " THEN RStrip(SubSeq(s, 1, Len(s) - 1)) ELSE s
Strip(s) == RStrip(LStrip(s))

(* str.isdigit(): non-empty and every character is a digit character *)
IsDigit(s) == s # <<>> /\ \A i \in 1 .. Len(s) : s[i] \in Digits \cup {SuperscriptTwo}

(* int(s) succeeds on decimal digits only *)
IntRaises(s) == \E i \in 1 .. Len(s) : s[i] \notin Digits
DigitValue(c) ==
    CASE c = "0" -> 0 [] c = "1" -> 1 [] c = "5" -> 5 [] c = "6" -> 6
RECURSIVE IntOf(_)
IntOf(s) ==
    IF s = <<>> THEN 0
    ELSE 10 * IntOf(SubSeq(s, 1, Len(s) - 1)) + DigitValue(s[Len(s)])

(* views.py 124-129: the stored self_rating of a submitted one *)
ParseSelfRating(raw) ==
    IF raw # None /\ Val(raw) # <<>> /\ IsDigit(Val(raw))
    THEN LET r == IntOf(Val(raw))
         IN  IF MinRating <= r /\ r <= MaxRating THEN Some(r) ELSE None
    ELSE None

(* views.py 125-126: int() raises on a digit string that is not decimal *)
SelfRatingRaises(raw) ==
    raw # None /\ Val(raw) # <<>> /\ IsDigit(Val(raw)) /\ IntRaises(Val(raw))

----------------------------------------------------------------------------
(* models.py: Question.Meta.ordering = ['order', 'pk'] *)

Before(p, q) ==
    questions[p] < questions[q] \/ (questions[p] = questions[q] /\ p < q)

RECURSIVE InOrder(_)
InOrder(S) ==
    IF S = {} THEN <<>>
    ELSE LET first == CHOOSE p \in S : \A q \in S \ {p} : Before(p, q)
         IN  <<first>> \o InOrder(S \ {first})

(* PracticeSession.questions_in_order *)
questions_in_order == InOrder(DOMAIN questions)

(* Mutant of NextQuestionIndex: > for >= *)
NextQuestionIndexOffByOne(rows) ==
    LET answered_count == Cardinality(rows)
        total == Len(questions_in_order)
    IN  IF answered_count > total THEN None ELSE Some(answered_count)

(* PracticeSession.next_question_index, over the response rows it counts *)
NextQuestionIndex(rows) ==
    LET answered_count == Cardinality(rows)
        total == Len(questions_in_order)
    IN  IF answered_count >= total THEN None ELSE Some(answered_count)

next_question_index == NextQuestionIndex(responses)

(* PracticeSession.is_complete *)
is_complete == next_question_index = None

(* Mutant of end_time: the pauses do not extend the deadline *)
EndTimeWithoutPauses ==
    IF ~Truthy(time_limit_minutes) THEN None
    ELSE Some(started_at + MinutesDelta(Val(time_limit_minutes)))

(* PracticeSession.end_time *)
end_time ==
    IF ~Truthy(time_limit_minutes) THEN None
    ELSE Some(started_at + MinutesDelta(Val(time_limit_minutes))
                         + SecondsDelta(total_paused_seconds))

(* PracticeSession.duration_seconds *)
duration_seconds ==
    LET end == IF ended_at # None THEN Val(ended_at) ELSE now
        wall_seconds == IntSeconds(end - started_at)
    IN  Max(0, wall_seconds - total_paused_seconds)

(* The derived lifecycle state of the session *)
Ended == ended_at # None
Paused == paused_at # None /\ ended_at = None
Running == paused_at = None /\ ended_at = None

----------------------------------------------------------------------------
(* practice_session: the conditions of its branches *)

(* Mutant of TimerControlsApply: the timer controls of an ended session *)
TimerControlsApplyWhenEnded(review) == ~review /\ timer_enabled

(* views.py 73 *)
TimerControlsApply(review) == ~review /\ ended_at = None /\ timer_enabled

(* views.py 76 *)
PauseApplies(action) == action = "pause"

(* views.py 80 *)
ResumeApplies(action) == action = "resume" /\ paused_at # None

(* views.py 85 *)
EndTimerApplies(action) == action = "end_timer"

(* Mutant of PausedSeconds: the difference taken the wrong way round *)
PausedSecondsReversed == IntSeconds(Val(paused_at) - now)

(* views.py 81: the seconds a resume adds *)
PausedSeconds == IntSeconds(now - Val(paused_at))

(* views.py 98-100 *)
TimeIsUp ==
    /\ Truthy(time_limit_minutes) /\ ended_at = None /\ paused_at = None
    /\ end_time # None /\ now >= Val(end_time)

(* Mutant of TimeoutEndedAt: the time of the request *)
TimeoutEndedAtNow == Some(now)

(* views.py 101: the value the timeout check stores in ended_at *)
TimeoutEndedAt == end_time

(* views.py 106 *)
ShowsComplete(next_idx) == ended_at # None \/ next_idx = None

(* views.py 108-111 *)
TimeRanOut ==
    (Truthy(time_limit_minutes) /\ ended_at # None) /\ next_question_index # None

(* Mutant of UpdateOrCreate: objects.create, and no unique constraint *)
AlwaysCreate(rows, new_pk, question, text, rating) ==
    rows \cup {[pk |-> new_pk, question |-> question,
                response_text |-> text, self_rating |-> rating]}

(* views.py 131-135: PracticeResponse.objects.update_or_create, keyed by  *)
(* (session, question); more than one match raises and changes nothing     *)
UpdateOrCreate(rows, new_pk, question, text, rating) ==
    LET matching == {r \in rows : r.question = question}
    IN  IF matching = {}
        THEN rows \cup {[pk |-> new_pk, question |-> question,
                         response_text |-> text, self_rating |-> rating]}
        ELSE IF Cardinality(matching) = 1
        THEN {IF r \in matching
              THEN [r EXCEPT !.response_text = text, !.self_rating = rating]
              ELSE r : r \in rows}
        ELSE rows

(* Mutant of EndsOnAnswer: a Paused session is not ended by its last answer *)
EndsOnAnswerWhenRunning(rows) ==
    NextQuestionIndex(rows) = None /\ ended_at = None /\ paused_at = None

(* views.py 138: the last question was answered and the session is open *)
EndsOnAnswer(rows) == NextQuestionIndex(rows) = None /\ ended_at = None

Rendered(view, time_ran_out) == [view |-> view, time_ran_out |-> time_ran_out]

----------------------------------------------------------------------------
(* practice_session (views.py 66-161), one request handled as a whole *)

practice_session(method, action, review, response_text, self_rating) ==
    LET question_list == questions_in_order
        next_idx == next_question_index
    IN
    /\ UNCHANGED <<now, questions, next_question_pk, started_at,
                   time_limit_minutes, timer_enabled>>
    /\ IF TimerControlsApply(review) /\ PauseApplies(action)
       THEN /\ paused_at' = Some(now)
            /\ rendered' = Rendered("redirect_pause", FALSE)
            /\ UNCHANGED <<ended_at, total_paused_seconds, responses, next_response_pk>>
       ELSE IF TimerControlsApply(review) /\ ResumeApplies(action)
       THEN /\ total_paused_seconds' = total_paused_seconds + PausedSeconds
            /\ paused_at' = None
            /\ rendered' = Rendered("redirect_resume", FALSE)
            /\ UNCHANGED <<ended_at, responses, next_response_pk>>
       ELSE IF TimerControlsApply(review) /\ EndTimerApplies(action)
       THEN /\ ended_at' = Some(now)
            /\ rendered' = Rendered("redirect_end_timer", FALSE)
            /\ UNCHANGED <<paused_at, total_paused_seconds, responses, next_response_pk>>
       ELSE IF review
       THEN /\ rendered' = Rendered("review", FALSE)
            /\ UNCHANGED <<ended_at, paused_at, total_paused_seconds,
                           responses, next_response_pk>>
       ELSE IF TimeIsUp
       THEN /\ ended_at' = TimeoutEndedAt
            /\ rendered' = Rendered("redirect_timeout", FALSE)
            /\ UNCHANGED <<paused_at, total_paused_seconds, responses, next_response_pk>>
       ELSE IF ShowsComplete(next_idx)
       THEN /\ rendered' = Rendered("complete", TimeRanOut)
            /\ UNCHANGED <<ended_at, paused_at, total_paused_seconds,
                           responses, next_response_pk>>
       ELSE LET question == question_list[Val(next_idx) + 1]
            IN  IF method = "POST" /\ SelfRatingRaises(self_rating)
                THEN /\ rendered' = Rendered("error", FALSE)
                     /\ UNCHANGED <<ended_at, paused_at, total_paused_seconds,
                                    responses, next_response_pk>>
                ELSE IF method = "POST"
                THEN LET answer == Strip(response_text)
                         rows == UpdateOrCreate(responses, next_response_pk, question,
                                                answer, ParseSelfRating(self_rating))
                     IN  /\ responses' = rows
                         /\ next_response_pk' =
                                IF \E r \in rows : r.pk = next_response_pk
                                THEN next_response_pk + 1 ELSE next_response_pk
                         /\ ended_at' = IF EndsOnAnswer(rows) THEN Some(now) ELSE ended_at
                         /\ rendered' = Rendered("redirect_answer", FALSE)
                         /\ UNCHANGED <<paused_at, total_paused_seconds>>
                ELSE /\ rendered' = Rendered("question", FALSE)
                     /\ UNCHANGED <<ended_at, paused_at, total_paused_seconds,
                                    responses, next_response_pk>>

(* A GET carries no form fields *)
Get(action, review) == practice_session("GET", action, review, <<>>, None)
Post(action, review, response_text, self_rating) ==
    practice_session("POST", action, review, response_text, self_rating)

IsGet == \E action \in Actions, review \in BOOLEAN : Get(action, review)
IsPost ==
    \/ \E action \in Actions, response_text \in RawTexts, self_rating \in RawRatings :
            Post(action, FALSE, response_text, self_rating)
    \/ \E action \in Actions : Post(action, TRUE, <<>>, None)
IsRequest == IsGet \/ IsPost

----------------------------------------------------------------------------
(* The question CRUD views of the session's set *)

(* question_create (views.py 322-338): a valid POST adds a row *)
question_create(order) ==
    /\ next_question_pk <= MaxQuestionPk
    /\ questions' = [p \in DOMAIN questions \cup {next_question_pk} |->
                        IF p = next_question_pk THEN order ELSE questions[p]]
    /\ next_question_pk' = next_question_pk + 1
    /\ UNCHANGED <<now, session_fields, responses, next_response_pk, rendered>>

(* question_edit (views.py 341-356): a valid POST rewrites the row *)
question_edit(pk, order) ==
    /\ pk \in DOMAIN questions
    /\ questions' = [questions EXCEPT ![pk] = order]
    /\ UNCHANGED <<now, next_question_pk, session_fields, responses,
                   next_response_pk, rendered>>

(* PracticeResponse.question: on_delete=CASCADE *)
CascadeDelete(rows, pk) == {r \in rows : r.question # pk}

(* question_delete (views.py 359-370): a POST deletes the row *)
question_delete(pk) ==
    /\ pk \in DOMAIN questions
    /\ questions' = [p \in DOMAIN questions \ {pk} |-> questions[p]]
    /\ responses' = CascadeDelete(responses, pk)
    /\ UNCHANGED <<now, next_question_pk, session_fields, next_response_pk,
                   rendered>>


----------------------------------------------------------------------------
(* The clock moves on to a later instant *)

Tick(instants) ==
    /\ \E t \in instants : t > now /\ now' = t
    /\ UNCHANGED <<questions, next_question_pk, session_fields, responses,
                   next_response_pk, rendered>>

----------------------------------------------------------------------------
(* practice_start (views.py 32-46) has created the session of a set that   *)
(* has questions. It passes no time_limit_minutes: a timed session is a    *)
(* row whose time_limit_minutes column was set (models.py 68-72).          *)

InitWith(n) ==
    /\ now = StartTick
    /\ questions = [pk \in 1 .. n |-> 0]
    /\ next_question_pk = n + 1
    /\ started_at = StartTick
    /\ time_limit_minutes \in TimeLimits
    /\ ended_at = None
    /\ paused_at = None
    /\ total_paused_seconds = 0
    /\ timer_enabled \in BOOLEAN
    /\ responses = {}
    /\ next_response_pk = 1
    /\ rendered = Rendered("none", FALSE)
    /\ paused_ticks = {}
    /\ in_flight = None

Init == InitWith(InitQuestions)

(* The history of the pauses, kept along the steps of SpecHistory *)
LogPaused ==
    paused_ticks' = IF Paused THEN paused_ticks \cup (now .. now' - 1)
                    ELSE paused_ticks

GetRequest == IsGet /\ UNCHANGED <<paused_ticks, in_flight>>
PostRequest == IsPost /\ UNCHANGED <<paused_ticks, in_flight>>
ClockTick == Tick(Instants) /\ UNCHANGED <<paused_ticks, in_flight>>

(* The session of a set whose questions are left alone *)
Next == GetRequest \/ PostRequest \/ ClockTick

Spec == Init /\ [][Next]_vars

(* The session of a set whose questions are edited meanwhile *)
QuestionCreate ==
    (\E order \in Orders : question_create(order))
    /\ UNCHANGED <<paused_ticks, in_flight>>
QuestionEdit ==
    /\ \E pk \in DOMAIN questions, order \in Orders : question_edit(pk, order)
    /\ UNCHANGED <<paused_ticks, in_flight>>
QuestionDelete ==
    (\E pk \in DOMAIN questions : question_delete(pk))
    /\ UNCHANGED <<paused_ticks, in_flight>>

CoarseTick == Tick(EditInstants) /\ UNCHANGED <<paused_ticks, in_flight>>

NextEdit ==
    \/ GetRequest \/ PostRequest \/ CoarseTick
    \/ QuestionCreate \/ QuestionEdit \/ QuestionDelete

InitEdit == InitWith(EditQuestions)

SpecEdit == InitEdit /\ [][NextEdit]_vars

(* The session with the history of its pauses *)
LoggedGet == IsGet /\ LogPaused /\ UNCHANGED in_flight
LoggedTick == Tick(Instants) /\ LogPaused /\ UNCHANGED in_flight

NextHistory == LoggedGet \/ LoggedTick

SpecHistory == Init /\ [][NextHistory]_vars

----------------------------------------------------------------------------
(* Two practice_session requests on one session, interleaved. The handler  *)
(* takes no lock and opens no transaction: it reads the session row and    *)
(* the responses (views.py 68-70), and later decides and writes from what  *)
(* it read (views.py 72-141), save(update_fields=...) storing the named    *)
(* columns of its own session object. One request is split into these two  *)
(* steps; the other runs between them as a whole.                           *)

(* The forms of the split request: a GET with any action, or an answer *)
SplitRequests ==
    [method : {"GET"}, action : Actions, response_text : {<<>>}, self_rating : {None}]
    \cup [method : {"POST"}, action : {"none"}, response_text : RawTexts,
          self_rating : {Some(<<"5">>)}]

(* views.py 68-70: get_object_or_404(PracticeSession, ...), the list of    *)
(* questions_in_order() and next_question_index(), kept by the request     *)
read_session(request) ==
    /\ in_flight = None
    /\ in_flight' = Some([request |-> request,
                          ended_at |-> ended_at,
                          paused_at |-> paused_at,
                          total_paused_seconds |-> total_paused_seconds,
                          next_idx |-> next_question_index])
    /\ UNCHANGED <<now, questions, next_question_pk, session_fields, responses,
                   next_response_pk, rendered, paused_ticks>>

(* views.py 72-161 on the session object read before: the conditions test  *)
(* its fields, the saves write the named columns, and update_or_create,    *)
(* refresh_from_db and the later next_question_index() read the tables     *)
write_session ==
    /\ in_flight # None
    /\ LET session == Val(in_flight)
           request == session.request
           question_list == questions_in_order
           controls == session.ended_at = None /\ timer_enabled
           session_end_time ==
               IF ~Truthy(time_limit_minutes) THEN None
               ELSE Some(started_at + MinutesDelta(Val(time_limit_minutes))
                                    + SecondsDelta(session.total_paused_seconds))
           time_is_up ==
               /\ Truthy(time_limit_minutes)
               /\ session.ended_at = None /\ session.paused_at = None
               /\ session_end_time # None /\ now >= Val(session_end_time)
       IN
       /\ in_flight' = None
       /\ UNCHANGED <<now, questions, next_question_pk, started_at,
                      time_limit_minutes, timer_enabled, paused_ticks>>
       /\ IF controls /\ request.action = "pause"
          THEN /\ paused_at' = Some(now)
               /\ rendered' = Rendered("redirect_pause", FALSE)
               /\ UNCHANGED <<ended_at, total_paused_seconds, responses, next_response_pk>>
          ELSE IF controls /\ request.action = "resume" /\ session.paused_at # None
          THEN /\ total_paused_seconds' = session.total_paused_seconds
                                            + IntSeconds(now - Val(session.paused_at))
               /\ paused_at' = None
               /\ rendered' = Rendered("redirect_resume", FALSE)
               /\ UNCHANGED <<ended_at, responses, next_response_pk>>
          ELSE IF controls /\ request.action = "end_timer"
          THEN /\ ended_at' = Some(now)
               /\ rendered' = Rendered("redirect_end_timer", FALSE)
               /\ UNCHANGED <<paused_at, total_paused_seconds, responses, next_response_pk>>
          ELSE IF time_is_up
          THEN /\ ended_at' = session_end_time
               /\ rendered' = Rendered("redirect_timeout", FALSE)
               /\ UNCHANGED <<paused_at, total_paused_seconds, responses, next_response_pk>>
          ELSE IF session.ended_at # None \/ session.next_idx = None
          THEN /\ rendered' = Rendered("complete",
                                       (Truthy(time_limit_minutes) /\ session.ended_at # None)
                                           /\ next_question_index # None)
               /\ UNCHANGED <<ended_at, paused_at, total_paused_seconds,
                              responses, next_response_pk>>
          ELSE LET question == question_list[Val(session.next_idx) + 1]
               IN  IF request.method = "POST" /\ SelfRatingRaises(request.self_rating)
                   THEN /\ rendered' = Rendered("error", FALSE)
                        /\ UNCHANGED <<ended_at, paused_at, total_paused_seconds,
                                       responses, next_response_pk>>
                   ELSE IF request.method = "POST"
                   THEN LET rows == UpdateOrCreate(responses, next_response_pk, question,
                                                   Strip(request.response_text),
                                                   ParseSelfRating(request.self_rating))
                        IN  /\ responses' = rows
                            /\ next_response_pk' =
                                   IF \E r \in rows : r.pk = next_response_pk
                                   THEN next_response_pk + 1 ELSE next_response_pk
                            /\ ended_at' = IF EndsOnAnswer(rows) THEN Some(now) ELSE ended_at
                            /\ rendered' = Rendered("redirect_answer", FALSE)
                            /\ UNCHANGED <<paused_at, total_paused_seconds>>
                   ELSE /\ rendered' = Rendered("question", FALSE)
                        /\ UNCHANGED <<ended_at, paused_at, total_paused_seconds,
                                       responses, next_response_pk>>

ReadSession == \E request \in SplitRequests : read_session(request)
WriteSession == write_session

NextRace == ReadSession \/ WriteSession \/ GetRequest \/ PostRequest \/ CoarseTick

SpecRace == Init /\ [][NextRace]_vars

----------------------------------------------------------------------------
(* Kinds of request, as steps *)

(* The pause link: GET ?action=pause *)
IsPauseRequest == \E review \in BOOLEAN : Get("pause", review)

(* A request outside review mode: a plain GET, a timer action or a POST *)
IsLiveRequest ==
    \/ \E action \in Actions : Get(action, FALSE)
    \/ \E action \in Actions, response_text \in RawTexts, self_rating \in RawRatings :
            Post(action, FALSE, response_text, self_rating)

(* A request that carries action=resume outside review mode *)
IsResumeRequest ==
    \/ Get("resume", FALSE)
    \/ \E response_text \in RawTexts, self_rating \in RawRatings :
            Post("resume", FALSE, response_text, self_rating)

----------------------------------------------------------------------------
(* C1: a pause request on a session that is already Paused leaves every    *)
(* field of the session unchanged; paused_at keeps the time of the first   *)
(* pause.                                                                   *)
PauseIsIdempotent ==
    [][(Paused /\ IsPauseRequest) => UNCHANGED session_fields]_vars

(* C2: once ended_at is set, no step (a request of any kind, or the clock) *)
(* changes ended_at, paused_at, total_paused_seconds or the responses of   *)
(* the session; and GET ?action=resume on a session that is not Paused,    *)
(* like GET ?action=end_timer on an Ended one, has no effect of its own:   *)
(* the request is handled as the same GET without the action.              *)
EndedIsTerminal ==
    [][/\ Ended => UNCHANGED <<ended_at, paused_at, total_paused_seconds, responses>>
       /\ \A review \in BOOLEAN :
              (~Paused /\ Get("resume", review)) => Get("none", review)
       /\ \A review \in BOOLEAN :
              (Ended /\ Get("end_timer", review)) => Get("none", review)]_vars

(* C2, witness: a session ended while paused has since served a request *)
EndedSessionServed ==
    ended_at # None /\ paused_at # None /\ responses # {} /\ rendered.view = "complete"

(* C3: the next request on a timed Running session whose deadline has been *)
(* reached ends it with ended_at = end_time(), without pausing it and      *)
(* without recording a response.                                            *)
TimeoutOnNextRequest ==
    [][(/\ Running /\ end_time # None /\ now >= Val(end_time)
        /\ IsLiveRequest)
          => (ended_at' = end_time /\ paused_at' = None /\ responses' = responses)]_vars

(* C4: the same answer sent twice from one page (the second POST handled   *)
(* right after the first) leaves one response for the displayed question,  *)
(* creates no response for another question and does not move              *)
(* next_question_index() a second time.                                     *)
AnsweredQuestions(rows) == {r.question : r \in rows}

(* the answer recorded last, while the questions are left alone, is that of *)
(* the form (response_text, self_rating)                                    *)
IsLastStored(response_text, self_rating) ==
    /\ responses # {}
    /\ Cardinality(responses) <= Len(questions_in_order)
    /\ ~SelfRatingRaises(self_rating)
    /\ \E r \in responses :
         /\ r.question = questions_in_order[Cardinality(responses)]
         /\ r.response_text = Strip(response_text)
         /\ r.self_rating = ParseSelfRating(self_rating)

DoubleSubmissionIsHarmless ==
    [][\A response_text \in RawTexts, self_rating \in RawRatings :
          (/\ rendered.view = "redirect_answer"
           /\ IsLastStored(response_text, self_rating)
           /\ Post("none", FALSE, response_text, self_rating))
             => /\ AnsweredQuestions(responses') = AnsweredQuestions(responses)
                /\ Cardinality(responses') = Cardinality(responses)
                /\ next_question_index' = next_question_index]_vars

(* C5: duration_seconds() is the number of whole seconds between           *)
(* started_at and (ended_at or now) during which the session was not       *)
(* Paused, also for a session that is Paused or was ended while Paused.    *)
ActiveSeconds ==
    LET end == IF ended_at # None THEN Val(ended_at) ELSE now
        active == {t \in started_at .. end - 1 : t \notin paused_ticks}
    IN  Max(0, Cardinality(active) \div TicksPerSecond)

DurationIsActiveTime == duration_seconds = ActiveSeconds

(* C6: total_paused_seconds never decreases, and the only step that        *)
(* changes it is a resume request on a Paused session.                     *)
PausedSecondsOnlyGrow ==
    [][/\ total_paused_seconds' >= total_paused_seconds
       /\ total_paused_seconds' # total_paused_seconds
              => (Paused /\ IsResumeRequest)]_vars

(* C6, witness: a resume has added paused seconds *)
ResumeAddedSeconds ==
    total_paused_seconds > 0 /\ rendered.view = "redirect_resume"

(* C7: a pause at t1 on a Running session stores t1, and the resume at     *)
(* t2 >= t1 that follows adds the whole seconds of t2 - t1 to              *)
(* total_paused_seconds, clears paused_at and moves end_time() forward by  *)
(* as many seconds.                                                         *)
PauseThenResumeAddsInterval ==
    [][/\ (Running /\ timer_enabled /\ Get("pause", FALSE)) => paused_at' = Some(now)
       /\ (Paused /\ IsResumeRequest) =>
              LET t1 == Val(paused_at)
                  t2 == now
                  seconds == (t2 - t1) \div TicksPerSecond
              IN  /\ t2 >= t1
                  /\ total_paused_seconds' = total_paused_seconds + seconds
                  /\ paused_at' = None
                  /\ end_time # None =>
                        /\ Val(end_time') = Val(end_time) + seconds * TicksPerSecond
                        /\ Val(end_time') >= Val(end_time)]_vars

(* C7, witness: a timed session was paused for a second or more and resumed *)
ResumedTimedSession ==
    /\ rendered.view = "redirect_resume" /\ paused_at = None
    /\ total_paused_seconds >= 1 /\ end_time # None

(* C8: a session ended by the timeout check has ended_at = started_at +    *)
(* time_limit_minutes * 60 s + total_paused_seconds, and its               *)
(* duration_seconds() is time_limit_minutes * 60.                           *)
TimeoutEndsAtDeadline ==
    rendered.view = "redirect_timeout" =>
        /\ time_limit_minutes # None
        /\ ended_at = Some(started_at
                           + Val(time_limit_minutes) * SecondsPerMinute * TicksPerSecond
                           + total_paused_seconds * TicksPerSecond)
        /\ duration_seconds = Val(time_limit_minutes) * SecondsPerMinute

(* C8, witness: a timeout after a pause, found by a request after the deadline *)
TimedOutAfterPause ==
    /\ rendered.view = "redirect_timeout" /\ total_paused_seconds > 0
    /\ ended_at # None /\ now > Val(ended_at)

(* C9: while the questions are left alone, the answered questions are the  *)
(* first k in the order of the set, next_question_index() is k when k is   *)
(* less than the number of questions and None exactly when every question  *)
(* has a response, and is_complete() is next_question_index() = None.      *)
AnsweredArePrefix ==
    LET k == Cardinality(responses)
        n == Len(questions_in_order)
    IN  /\ k <= n
        /\ AnsweredQuestions(responses) = {questions_in_order[i] : i \in 1 .. k}
        /\ k < n => next_question_index = Some(k)
        /\ next_question_index = None
              <=> \A q \in DOMAIN questions : q \in AnsweredQuestions(responses)
        /\ is_complete <=> next_question_index = None

(* C9, witness: the first of two questions is answered *)
FirstQuestionAnswered ==
    /\ Cardinality(responses) = 1 /\ rendered.view = "redirect_answer"
    /\ next_question_index = Some(1)

(* C10: a session holds at most one response per question, each for a      *)
(* question of the set, so it never holds more responses than the set has  *)
(* questions, also after questions are deleted.                             *)
OneResponsePerQuestion ==
    /\ \A q \in AnsweredQuestions(responses) :
          /\ Cardinality({r \in responses : r.question = q}) = 1
          /\ q \in DOMAIN questions
    /\ Cardinality(responses) <= Cardinality(DOMAIN questions)

(* C10, witness: a response went with its deleted question, another stays *)
ResponseDeletedWithQuestion ==
    responses # {} /\ next_response_pk - 1 > Cardinality(responses)

(* C11: the step that makes is_complete() true is the recording of an      *)
(* answer, which in the same request sets the unset ended_at to the time   *)
(* of the recording, whether the session is Running or Paused and whether  *)
(* or not its timer is enabled; is_complete() never goes back to false,    *)
(* so it changes from false to true once.                                   *)
LastAnswerEndsSession ==
    [][/\ (~is_complete /\ is_complete') =>
              /\ rendered'.view = "redirect_answer"
              /\ Cardinality(responses') = Cardinality(responses) + 1
              /\ ended_at = None
              /\ ended_at' = Some(now)
              /\ now' = now
       /\ is_complete => is_complete']_vars

(* C11, witness: the last answer ended a Paused session whose timer was    *)
(* paused and never resumed                                                 *)
LastAnswerEndedPausedSession ==
    /\ is_complete /\ rendered.view = "redirect_answer"
    /\ paused_at # None /\ ended_at = Some(now)
    /\ Cardinality(responses) = InitQuestions

(* C12: the completion page reports time_ran_out only for a session that   *)
(* the timeout check ended with a question still unanswered, and never for *)
(* a session whose questions are all answered.  The timeout check ends a   *)
(* session at its deadline end_time() and nothing changes the deadline of  *)
(* an Ended session, so a report for a session whose ended_at is another   *)
(* instant is a report for a session ended for another reason.             *)
TimeRanOutOnlyAfterTimeout ==
    rendered.view = "complete" =>
        /\ rendered.time_ran_out =>
              /\ end_time # None
              /\ ended_at = end_time
              /\ ~is_complete
        /\ is_complete => ~rendered.time_ran_out

(* C13: timer_enabled never changes, and no step on a session with         *)
(* timer_enabled false (a pause, resume or end_timer request, a request    *)
(* that runs the timeout check, or any other) changes paused_at or         *)
(* total_paused_seconds; the only step that changes the ended_at of such   *)
(* a session is the recording of the answer to its last question.          *)
TimerDisabledMeansNoTimerLogic ==
    [][/\ timer_enabled' = timer_enabled
       /\ ~timer_enabled =>
              /\ UNCHANGED <<paused_at, total_paused_seconds>>
              /\ ended_at' # ended_at =>
                    /\ rendered'.view = "redirect_answer"
                    /\ is_complete'
                    /\ ended_at' = Some(now)]_vars

(* C14: a POST that reaches the answer form with a self-rating that is not *)
(* an integer from 1 to 5 does not fail: it records the stripped response  *)
(* text for the displayed question, with no self_rating; and every stored  *)
(* self_rating is absent or in 1..5.                                        *)
RatingsOneToFive == {Some(<<"1">>), Some(<<"5">>)}

InvalidRatingIsDiscarded ==
    [][/\ \A response_text \in RawTexts, self_rating \in RawRatings \ RatingsOneToFive :
              (/\ Post("none", FALSE, response_text, self_rating)
               /\ rendered'.view \in {"redirect_answer", "error"})
                 => /\ rendered'.view = "redirect_answer"
                    /\ \E r \in responses' :
                          /\ r.question = questions_in_order[Val(next_question_index) + 1]
                          /\ r.response_text = Strip(response_text)
                          /\ r.self_rating = None
       /\ \A r \in responses' :
              r.self_rating = None \/ Val(r.self_rating) \in MinRating .. MaxRating]_vars

(* C15: with two requests on the session interleaved, once ended_at is     *)
(* written no step writes another value to it, and no step creates or      *)
(* changes a response.                                                      *)
EndedAtWrittenOnce ==
    [][ended_at # None => (ended_at' = ended_at /\ responses' = responses)]_vars

(* C16: a session whose is_complete() is true has ended_at set, also after *)
(* questions of its set were deleted while it was open.                     *)
CompleteSessionIsEnded == is_complete => ended_at # None

(* C17: while the questions of the set are added, reordered and deleted,   *)
(* the question at index next_question_index() of an open session has no   *)
(* response in the session yet, and every answer the session accepts adds  *)
(* one to its number of responses (so that as many answers as there are    *)
(* unanswered questions complete it).                                       *)
IsAcceptedAnswer ==
    /\ \E response_text \in RawTexts, self_rating \in RawRatings :
          Post("none", FALSE, response_text, self_rating)
    /\ rendered'.view = "redirect_answer"

ShownQuestionIsUnanswered ==
    (ended_at = None /\ next_question_index # None) =>
        questions_in_order[Val(next_question_index) + 1]
            \notin AnsweredQuestions(responses)

OpenSessionMakesProgress ==
    [][/\ ShownQuestionIsUnanswered'
       /\ IsAcceptedAnswer =>
              Cardinality(responses') = Cardinality(responses) + 1]_vars

====
